---- MODULE Spec2Model ----
(***************************************************************************)
(* Model of the venue curation engine of preshow_mailer                    *)
(* (src/src/services/places.py, src/src/utils/geo.py).                     *)
(*                                                                         *)
(* Python values are represented as follows.                               *)
(*   str operated on character-wise : sequence of one-character strings    *)
(*   str only stored or compared    : TLA+ string                          *)
(*   value that may be None/absent  : None == <<>>, Some(v) == <<v>>       *)
(*   list                           : sequence                             *)
(*   dict (insertion ordered)       : sequence of [key, value] records     *)
(*   coordinates                    : integers, degrees * 10^5             *)
(*   distances                      : whole metres, rounded up             *)
(***************************************************************************)
EXTENDS Integers, Sequences, FiniteSets, TLC

(***************************************************************************)
(* Bounds of the model.                                                    *)
(***************************************************************************)
\* longest result page the candidate search provider returns
MaxCands == 4
\* longest period list an opening-hours response carries
MaxPeriods == 2

(***************************************************************************)
(* Optional values.                                                        *)
(***************************************************************************)
None == <<>>

Some(v) == <<v>>

IsNone(o) == o = <<>>

Val(o) == o[1]

(***************************************************************************)
(* Strings as character sequences.                                         *)
(***************************************************************************)
\* str.lower() on one character, for the letters the model's names use
LowerChar(c) ==
    CASE c = "A" -> "a" [] c = "B" -> "b" [] c = "D" -> "d" [] c = "E" -> "e"
      [] c = "I" -> "i" [] c = "J" -> "j" [] c = "O" -> "o" [] c = "P" -> "p"
      [] c = "R" -> "r" [] c = "S" -> "s" [] c = "T" -> "t"
      [] OTHER -> c

\* str.lower()
Lower(s) == [i \in 1..Len(s) |-> LowerChar(s[i])]

\* Python's `sub in s` on strings: sub occurs in s as a contiguous run
\* (the empty string occurs in every string)
Contains(sub, s) ==
    \E k \in 0..(Len(s) - Len(sub)) :
        \A i \in 1..Len(sub) : s[k + i] = sub[i]

(***************************************************************************)
(* src/src/utils/geo.py                                                    *)
(***************************************************************************)
\* The coordinates of the model, in degrees * 10^5: the theatre and the
\* places the provider knows, a point at 45 N 10 E, and the antipodal points
\* 2.5 N 90 W and 2.5 S 90 E.
Coords ==
    { <<0, 0>>, <<449, 0>>, <<0, 449>>, <<899, 0>>, <<1618, 0>>,
      <<4500000, 1000000>>, <<250000, -9000000>>, <<-250000, 9000000>> }

\* math.sqrt(1 - a) of line 19 raises ValueError (math domain error): for
\* these pairs of Coords geo.py computes a = 1.0000000000000002
MathDomainError(lat1, lon1, lat2, lon2) ==
    <<lat1, lon1, lat2, lon2>> \in { <<250000, -9000000, -250000, 9000000>>,
                                   <<-250000, 9000000, 250000, -9000000>> }

\* calculate_distance evaluated by geo.py on every ordered pair of Coords on
\* which it returns (haversine, R = 6371000), rounded up to whole metres.
\* Rounding up keeps `dist > r` unchanged for every integer radius r.
HaversineRow(a) ==
    CASE a = <<0, 0>> ->
           [b \in Coords |->
              CASE b = <<0, 0>> -> 0 [] b = <<449, 0>> -> 500
                [] b = <<0, 449>> -> 500 [] b = <<899, 0>> -> 1000
                [] b = <<1618, 0>> -> 1800
                [] b = <<4500000, 1000000>> -> 5099841
                [] b = <<250000, -9000000>> -> 10007544
                [] b = <<-250000, 9000000>> -> 10007544]
      [] a = <<449, 0>> ->
           [b \in Coords |->
              CASE b = <<0, 0>> -> 500 [] b = <<449, 0>> -> 0
                [] b = <<0, 449>> -> 707 [] b = <<899, 0>> -> 501
                [] b = <<1618, 0>> -> 1300
                [] b = <<4500000, 1000000>> -> 5099349
                [] b = <<250000, -9000000>> -> 10007522
                [] b = <<-250000, 9000000>> -> 10007566]
      [] a = <<0, 449>> ->
           [b \in Coords |->
              CASE b = <<0, 0>> -> 500 [] b = <<449, 0>> -> 707
                [] b = <<0, 449>> -> 0 [] b = <<899, 0>> -> 1118
                [] b = <<1618, 0>> -> 1868
                [] b = <<4500000, 1000000>> -> 5099756
                [] b = <<250000, -9000000>> -> 10008043
                [] b = <<-250000, 9000000>> -> 10007045]
      [] a = <<899, 0>> ->
           [b \in Coords |->
              CASE b = <<0, 0>> -> 1000 [] b = <<449, 0>> -> 501
                [] b = <<0, 449>> -> 1118 [] b = <<899, 0>> -> 0
                [] b = <<1618, 0>> -> 800
                [] b = <<4500000, 1000000>> -> 5098856
                [] b = <<250000, -9000000>> -> 10007500
                [] b = <<-250000, 9000000>> -> 10007588]
      [] a = <<1618, 0>> ->
           [b \in Coords |->
              CASE b = <<0, 0>> -> 1800 [] b = <<449, 0>> -> 1300
                [] b = <<0, 449>> -> 1868 [] b = <<899, 0>> -> 800
                [] b = <<1618, 0>> -> 0
                [] b = <<4500000, 1000000>> -> 5098069
                [] b = <<250000, -9000000>> -> 10007465
                [] b = <<-250000, 9000000>> -> 10007622]
      [] a = <<4500000, 1000000>> ->
           [b \in Coords |->
              CASE b = <<0, 0>> -> 5099841 [] b = <<449, 0>> -> 5099349
                [] b = <<0, 449>> -> 5099756 [] b = <<899, 0>> -> 5098856
                [] b = <<1618, 0>> -> 5098069
                [] b = <<4500000, 1000000>> -> 0
                [] b = <<250000, -9000000>> -> 10593401
                [] b = <<-250000, 9000000>> -> 9421686]
      [] a = <<250000, -9000000>> ->
           [b \in Coords \ { <<-250000, 9000000>> } |->
              CASE b = <<0, 0>> -> 10007544 [] b = <<449, 0>> -> 10007522
                [] b = <<0, 449>> -> 10008043 [] b = <<899, 0>> -> 10007500
                [] b = <<1618, 0>> -> 10007465
                [] b = <<4500000, 1000000>> -> 10593401
                [] b = <<250000, -9000000>> -> 0]
      [] a = <<-250000, 9000000>> ->
           [b \in Coords \ { <<250000, -9000000>> } |->
              CASE b = <<0, 0>> -> 10007544 [] b = <<449, 0>> -> 10007566
                [] b = <<0, 449>> -> 10007045 [] b = <<899, 0>> -> 10007588
                [] b = <<1618, 0>> -> 10007622
                [] b = <<4500000, 1000000>> -> 9421686
                [] b = <<-250000, 9000000>> -> 0]

calculate_distance(lat1, lon1, lat2, lon2) ==
    HaversineRow(<<lat1, lon1>>)[<<lat2, lon2>>]

(***************************************************************************)
(* The world outside: what the candidate search provider can answer.       *)
(***************************************************************************)
\* An item of the provider's "results" array.  name, rating and
\* geometry.location may be absent from the JSON.
RawPlace(id, name, rating, vicinity, location) ==
    [place_id |-> id, name |-> name, rating |-> rating,
     vicinity |-> vicinity, location |-> location]

JoesSportsBar == <<"J","o","e","'","s"," ","S","p","o","r","t","s"," ","B","a","r">>

JoesDiner == <<"J","o","e","'","s"," ","D","i","n","e","r">>

\* What the provider knows for the keyword "dinner", in its own order.
DinnerPlaces ==
    << RawPlace("g1", Some(JoesSportsBar), Some("4.1"), "1 Main St", Some(<<449, 0>>)),
       RawPlace("g2", Some(JoesDiner), Some("4.5"), "2 Main St", Some(<<1618, 0>>)),
       RawPlace("g3", Some(<<"P","u","b">>), None, "3 Main St", Some(<<1618, 0>>)),
       RawPlace("g4", Some(<<"D","e","l","i">>), Some("3.9"), "4 Main St", Some(<<449, 0>>)),
       RawPlace("g5", Some(<<"I","n","n">>), Some("4.0"), "5 Main St", Some(<<0, 449>>)),
       RawPlace("g6", Some(<<"T","a","c","o">>), Some("4.8"), "6 Main St", Some(<<899, 0>>)),
       RawPlace("g7", None, Some("5.0"), "7 Main St", Some(<<449, 0>>)),
       RawPlace("g8", Some(<<"P","u","b">>), Some("3.0"), "8 Main St", None) >>

\* What the provider knows for the keyword "drinks".
DrinksPlaces ==
    << RawPlace("g9", Some(<<"I","n","n">>), Some("4.2"), "9 Main St", Some(<<0, 449>>)) >>

\* What the provider knows for the keyword "dessert".
DessertPlaces ==
    << RawPlace("g10", Some(<<"D","e","l","i">>), None, "10 Main St", Some(<<899, 0>>)),
       RawPlace("g11", None, None, "11 Main St", None) >>

KnownPlaces(keyword) ==
    CASE keyword = "dinner" -> DinnerPlaces
      [] keyword = "drinks" -> DrinksPlaces
      [] keyword = "dessert" -> DessertPlaces

Reverse(s) == [i \in 1..Len(s) |-> s[Len(s) + 1 - i]]

\* the subsequence of s at the positions in idx, in the order of s
RECURSIVE Pick(_, _, _)
Pick(s, idx, i) ==
    IF i > Len(s) THEN <<>>
    ELSE (IF i \in idx THEN <<s[i]>> ELSE <<>>) \o Pick(s, idx, i + 1)

\* The result pages the provider may return for a keyword: any at most
\* MaxCands of the places it knows, in its own order or in the reverse order.
ResultPages(keyword) ==
    LET known == KnownPlaces(keyword)
    IN  { Pick(o, idx, 1) :
            o \in {known, Reverse(known)},
            idx \in { x \in SUBSET (1..Len(known)) : Cardinality(x) <= MaxCands } }

\* What one call of the search endpoint can produce: requests.get or
\* response.json() raises, the JSON has no "results" key, or it has a page.
SearchResponses(keyword) ==
    { [kind |-> "error", results |-> None], [kind |-> "json", results |-> None] }
    \cup { [kind |-> "json", results |-> Some(pg)] : pg \in ResultPages(keyword) }

(***************************************************************************)
(* _fetch_candidates (places.py 80-105)                                    *)
(***************************************************************************)
Candidate(place) ==
    LET loc == IF IsNone(place.location) THEN [lat |-> None, lng |-> None]
               ELSE [lat |-> Some(Val(place.location)[1]),
                     lng |-> Some(Val(place.location)[2])]
    IN  [place_id |-> place.place_id,
         name     |-> place.name,
         rating   |-> IF IsNone(place.rating) THEN "N/A" ELSE Val(place.rating),
         address  |-> place.vicinity,
         lat      |-> loc.lat,
         lng      |-> loc.lng]

\* variant: a failing request escapes _fetch_candidates
FetchRaises_Propagate(response) == response.kind = "error"

\* try/except Exception of lines 89, 104-105: nothing escapes the function
FetchRaises(response) == FALSE

_fetch_candidates(response) ==
    IF response.kind = "error" THEN <<>>
    ELSE LET results == IF IsNone(response.results) THEN <<>>
                        ELSE Val(response.results)
         IN  [i \in 1..Len(results) |-> Candidate(results[i])]

(***************************************************************************)
(* get_nearby_places: list policy, distance, radius filter, ranking        *)
(* (places.py 17-59)                                                       *)
(***************************************************************************)
\* lists_config.get(key, []) or [], each term lowercased
Terms(lists_config, key) ==
    IF key \notin DOMAIN lists_config THEN <<>>
    ELSE IF IsNone(lists_config[key]) THEN <<>>
    ELSE [i \in 1..Len(Val(lists_config[key])) |-> Lower(Val(lists_config[key])[i])]

AnyTermIn(terms, p_name) ==
    \E i \in 1..Len(terms) : Contains(terms[i], p_name)

IsWhitelisted(p_name, lists_config) ==
    AnyTermIn(Terms(lists_config, "whitelist"), p_name)

\* variant: a whitelist match overrides the blacklist
IsBlacklisted_AllowWins(p_name, lists_config) ==
    /\ AnyTermIn(Terms(lists_config, "blacklist"), p_name)
    /\ ~IsWhitelisted(p_name, lists_config)

IsBlacklisted(p_name, lists_config) ==
    AnyTermIn(Terms(lists_config, "blacklist"), p_name)

\* variant: a place exactly at the radius is dropped
OutOfRadius_Inclusive(is_whitelisted, dist, radius_m, whitelist_r) ==
    IF is_whitelisted THEN dist >= whitelist_r ELSE dist >= radius_m

\* variant: a promoted place is bounded by the larger of the two radii
OutOfRadius_PromotedWidest(is_whitelisted, dist, radius_m, whitelist_r) ==
    IF is_whitelisted
    THEN dist > (IF whitelist_r > radius_m THEN whitelist_r ELSE radius_m)
    ELSE dist > radius_m

\* the radius filter: TRUE when the place is dropped
OutOfRadius(is_whitelisted, dist, radius_m, whitelist_r) ==
    IF is_whitelisted THEN dist > whitelist_r ELSE dist > radius_m

\* One iteration of the loop over candidates, on the dict `place`, which
\* the iteration updates in place.  out is "raise" when the iteration raises
\* (name is None at .lower(); lat or lng is None, or the square root has
\* a negative argument, inside calculate_distance),
\* "skip" on `continue`, "keep" on append; place is the dict afterwards.
ProcessPlace(place, lat0, lon0, radius_m, whitelist_r, lists_config) ==
    IF IsNone(place.name) THEN [out |-> "raise", place |-> place]
    ELSE LET p_name == Lower(Val(place.name)) IN
      IF IsBlacklisted(p_name, lists_config) THEN [out |-> "skip", place |-> place]
      ELSE LET is_whitelisted == IsWhitelisted(p_name, lists_config)
               promoted == [is_promoted |-> IF is_whitelisted THEN 1 ELSE 0] @@ place
           IN  IF IsNone(place.lat) THEN [out |-> "raise", place |-> promoted]
               ELSE IF IsNone(place.lng) THEN [out |-> "raise", place |-> promoted]
               ELSE IF MathDomainError(lat0, lon0, Val(place.lat), Val(place.lng))
                    THEN [out |-> "raise", place |-> promoted]
               ELSE LET dist == calculate_distance(lat0, lon0, Val(place.lat),
                                                   Val(place.lng))
                        full == [distance_m |-> dist,
                                 map_url |-> <<Val(place.name), place.address,
                                               place.place_id>>] @@ promoted
                    IN  IF OutOfRadius(is_whitelisted, dist, radius_m, whitelist_r)
                        THEN [out |-> "skip", place |-> full]
                        ELSE [out |-> "keep", place |-> full]

\* The whole loop over candidates: processed_candidates (places), the
\* candidate dicts as the loop leaves them (cands), and whether an iteration
\* raised, which ends the loop and the call.
RECURSIVE ProcessAll(_, _, _, _, _, _, _, _)
ProcessAll(cands, i, acc, lat0, lon0, radius_m, whitelist_r, lists_config) ==
    IF i > Len(cands) THEN [raised |-> FALSE, places |-> acc, cands |-> cands]
    ELSE LET r == ProcessPlace(cands[i], lat0, lon0, radius_m, whitelist_r, lists_config)
             after == [cands EXCEPT ![i] = r.place]
         IN  IF r.out = "raise"
             THEN [raised |-> TRUE, places |-> acc, cands |-> after]
             ELSE ProcessAll(after, i + 1,
                             IF r.out = "keep" THEN Append(acc, r.place) ELSE acc,
                             lat0, lon0, radius_m, whitelist_r, lists_config)

\* variant: equal keys count as smaller, which reverses ties
SortKeyLess_Unstable(a, b) ==
    \/ (0 - a.is_promoted) < (0 - b.is_promoted)
    \/ /\ a.is_promoted = b.is_promoted
       /\ a.distance_m <= b.distance_m

\* variant: the key is the distance alone
SortKeyLess_DistanceOnly(a, b) == a.distance_m < b.distance_m

\* key=lambda x: (-x['is_promoted'], x['distance_m']); tuples compare
\* lexicographically
SortKeyLess(a, b) ==
    \/ (0 - a.is_promoted) < (0 - b.is_promoted)
    \/ /\ a.is_promoted = b.is_promoted
       /\ a.distance_m < b.distance_m

\* x inserted behind every element that does not sort after it
RECURSIVE InsertStable(_, _)
InsertStable(x, s) ==
    IF s = <<>> THEN <<x>>
    ELSE IF SortKeyLess(x, Head(s)) THEN <<x>> \o s
    ELSE <<Head(s)>> \o InsertStable(x, Tail(s))

\* list.sort(key=...): stable, ascending
RECURSIVE SortPlaces(_, _)
SortPlaces(s, n) ==
    IF n = 0 THEN <<>> ELSE InsertStable(s[n], SortPlaces(s, n - 1))

\* _get_mock_places (places.py 170-171)
_get_mock_places(keyword) ==
    << [name |-> <<"M","o","c","k"," ","P","l","a","c","e">>, rating |-> "5.0",
        address |-> "123 Mock St", distance_m |-> 100] >>

\* variant: a key already present keeps its first value
DictSet_KeepFirst(d, key, value) ==
    IF \E i \in 1..Len(d) : d[i].key = key
    THEN d
    ELSE Append(d, [key |-> key, value |-> value])

\* results[key] = value on a dict: replace in place, or append a new key
DictSet(d, key, value) ==
    IF \E i \in 1..Len(d) : d[i].key = key
    THEN [i \in 1..Len(d) |-> IF d[i].key = key
                              THEN [key |-> key, value |-> value] ELSE d[i]]
    ELSE Append(d, [key |-> key, value |-> value])

(***************************************************************************)
(* _check_is_open (places.py 109-168)                                      *)
(***************************************************************************)
\* A checkpoint: what the code reads of a datetime
DateTime(weekday, hour, minute) ==
    [weekday |-> weekday, hour |-> hour, minute |-> minute]

DigitChars == <<"0", "1", "2", "3", "4", "5", "6", "7", "8", "9">>

IsDigit(c) == \E d \in 1..Len(DigitChars) : DigitChars[d] = c

DigitVal(c) == (CHOOSE d \in 1..Len(DigitChars) : DigitChars[d] = c) - 1

\* int(s) succeeds on a non-empty string of decimal digits
IsNumeric(s) == Len(s) > 0 /\ \A i \in 1..Len(s) : IsDigit(s[i])

\* int(s) for such a string
RECURSIVE IntOf(_)
IntOf(s) ==
    IF s = <<>> THEN 0
    ELSE 10 * IntOf(SubSeq(s, 1, Len(s) - 1)) + DigitVal(s[Len(s)])

\* target_dt.strftime('%H%M'): two digits each, zero padded
StrfHM(dt) ==
    << DigitChars[(dt.hour \div 10) + 1], DigitChars[(dt.hour % 10) + 1],
       DigitChars[(dt.minute \div 10) + 1], DigitChars[(dt.minute % 10) + 1] >>

\* variant: the rotation goes the wrong way
GoogleDay_Backwards(python_day) == (python_day + 6) % 7

\* Python Mon=0..Sun=6 to Google Sun=0..Sat=6
GoogleDay(python_day) == (python_day + 1) % 7

\* variant: the closing time itself counts as open
InWindow_InclusiveClose(open_time, close_time, target_time_int) ==
    IF open_time < close_time
    THEN open_time <= target_time_int /\ target_time_int <= close_time
    ELSE target_time_int >= open_time \/ target_time_int <= close_time

\* variant: a window across midnight counts from its opening time only
InWindow_NoWrap(open_time, close_time, target_time_int) ==
    IF open_time < close_time
    THEN open_time <= target_time_int /\ target_time_int < close_time
    ELSE target_time_int >= open_time

\* variant: equal open and close times make an empty window
InWindow_EmptyWhenEqual(open_time, close_time, target_time_int) ==
    IF open_time <= close_time
    THEN open_time <= target_time_int /\ target_time_int < close_time
    ELSE target_time_int >= open_time \/ target_time_int < close_time

\* The hours test of one period whose day matched
InWindow(open_time, close_time, target_time_int) ==
    IF open_time < close_time
    THEN open_time <= target_time_int /\ target_time_int < close_time
    ELSE target_time_int >= open_time \/ target_time_int < close_time

\* A period of the provider's "periods" array; "open", "close" and their
\* members may be absent from the JSON.
Period(open, close) == [open |-> open, close |-> close]

OpenAt(day, time) == Some([day |-> day, time |-> time])

CloseAt(time) == Some([time |-> time])

\* variant: the test for a missing close is inverted
IsAlwaysOpen_NeedsClose(period) ==
    /\ Val(Val(period.open).day) = 0
    /\ Val(period.open).time = Some(<<"0", "0", "0", "0">>)
    /\ ~IsNone(period.close)

\* The special case of line 144: day 0, time "0000", no close
IsAlwaysOpen(period) ==
    /\ Val(Val(period.open).day) = 0
    /\ Val(period.open).time = Some(<<"0", "0", "0", "0">>)
    /\ IsNone(period.close)

\* One iteration of the loop over periods: "true" on `return True`, "raise"
\* when a subscript or int() raises, "next" when the loop goes on.
CheckPeriod(period, google_day, target_time_int) ==
    IF IsNone(period.open) THEN "raise"
    ELSE IF IsNone(Val(period.open).day) THEN "raise"
    ELSE IF IsAlwaysOpen(period) THEN "true"
    ELSE IF Val(Val(period.open).day) # google_day THEN "next"
    ELSE IF IsNone(Val(period.open).time) THEN "raise"
    ELSE IF ~IsNumeric(Val(Val(period.open).time)) THEN "raise"
    ELSE IF IsNone(period.close) THEN "raise"
    ELSE IF IsNone(Val(period.close).time) THEN "raise"
    ELSE IF ~IsNumeric(Val(Val(period.close).time)) THEN "raise"
    ELSE IF InWindow(IntOf(Val(Val(period.open).time)),
                     IntOf(Val(Val(period.close).time)), target_time_int)
         THEN "true"
    ELSE "next"

\* variant: the handler fails open
ExceptResult_FailOpen == TRUE

\* lines 166-168: what the except handler returns
ExceptResult == FALSE

\* The loop over periods: TRUE at the first period that returns True,
\* the handler's value when an iteration raises, FALSE when the list is
\* exhausted.
RECURSIVE ScanPeriods(_, _, _, _)
ScanPeriods(periods, i, google_day, target_time_int) ==
    IF i > Len(periods) THEN FALSE
    ELSE LET r == CheckPeriod(periods[i], google_day, target_time_int)
         IN  IF r = "true" THEN TRUE
             ELSE IF r = "raise" THEN ExceptResult
             ELSE ScanPeriods(periods, i + 1, google_day, target_time_int)

\* A response of the details endpoint: the call or its parsing raises, or
\* JSON in which "result", "opening_hours" and "periods" may be absent.
DetailsError == [kind |-> "error", result |-> None]

DetailsNoResult == [kind |-> "json", result |-> None]

DetailsNoHours == [kind |-> "json", result |-> Some([opening_hours |-> None])]

DetailsPeriods(periods) ==
    [kind |-> "json",
     result |-> Some([opening_hours |-> Some([periods |-> Some(periods)])])]

_check_is_open(response, target_dt) ==
    IF response.kind = "error" THEN ExceptResult
    ELSE IF IsNone(response.result) THEN FALSE
    ELSE IF IsNone(Val(response.result).opening_hours) THEN FALSE
    ELSE LET hours   == Val(Val(response.result).opening_hours)
             periods == IF IsNone(hours.periods) THEN <<>> ELSE Val(hours.periods)
         IN  ScanPeriods(periods, 1, GoogleDay(target_dt.weekday),
                         IntOf(StrfHM(target_dt)))

(***************************************************************************)
(* The arguments of a call of get_nearby_places.                           *)
(***************************************************************************)
\* latitude, longitude of the theatre
Theatre == <<0, 0>>

Friday(hour, minute) == DateTime(4, hour, minute)

\* api_key: None, the empty string, a key
ApiKeys == { None, Some(""), Some("k") }

\* (radius_meters, whitelist_radius)
RadiusPairs == { <<1000, 2000>>, <<2000, 1000>> }

\* lists_config: no lists at all, or both lists (terms in mixed case)
ListConfigs ==
    { [notes |-> None],
      [whitelist |-> Some(<< <<"J","O","E">> >>), blacklist |-> Some(<< <<"B","a","r">> >>)] }

PreShow == [name |-> "pre_show", keyword |-> "dinner"]

PostShow == [name |-> "post_show", keyword |-> "drinks"]

PostShowDessert == [name |-> "post_show", keyword |-> "dessert"]

LateShow == [name |-> "late_show", keyword |-> "dessert"]

CategoryLists ==
    { <<>>, <<PreShow>>, <<PostShow, LateShow>>, <<LateShow, PostShow>>,
      <<PostShow, PostShowDessert>> }

CheckTimeLists ==
    { <<>>, << Friday(17, 0) >>, << Friday(18, 0), Friday(23, 0) >> }

Args ==
    { [radius_meters |-> r[1], whitelist_radius |-> r[2], categories_list |-> c,
       check_times |-> t, lists_config |-> l, api_key |-> k] :
        r \in RadiusPairs, c \in CategoryLists, t \in CheckTimeLists,
        l \in ListConfigs, k \in ApiKeys }

\* variant: `api_key is None`
NoKey_OnlyNone(api_key) == IsNone(api_key)

\* `not api_key`
NoKey(api_key) == IF IsNone(api_key) THEN TRUE ELSE Val(api_key) = ""

\* The opening-hours answers the details endpoint gives during a call of
\* get_nearby_places.
AlwaysOpenPeriod == Period(OpenAt(Some(0), Some(<<"0", "0", "0", "0">>)), None)

FridayEvening ==
    Period(OpenAt(Some(5), Some(<<"1", "8", "0", "0">>)),
           CloseAt(Some(<<"0", "2", "0", "0">>)))

DetailsResponses ==
    { DetailsError, DetailsNoHours,
      DetailsPeriods(<<AlwaysOpenPeriod>>), DetailsPeriods(<<FridayEvening>>) }

(***************************************************************************)
(* State of one call of get_nearby_places.                                 *)
(***************************************************************************)
VARIABLES
    args,                  \* the arguments of the call
    pc,                    \* where the call stands
    ci,                    \* index in categories_list of the category at hand
    results,               \* the dict being built, then returned
    candidates,            \* what _fetch_candidates returned for the category
    processed_candidates,  \* the ranked survivors of the category
    pi,                    \* index in processed_candidates of `place`
    ti,                    \* index in check_times of `t`
    valid_places,          \* the accepted places of the category
    searches,              \* the search requests sent so far
    checks,                \* the availability checks of the category so far
    details                \* the last answer of the details endpoint

vars == <<args, pc, ci, results, candidates, processed_candidates, pi, ti,
          valid_places, searches, checks, details>>

category == args.categories_list[ci]

\* variant: the search uses the base radius
search_radius_BaseOnly == args.radius_meters

\* max(radius_meters, whitelist_radius)
search_radius ==
    IF args.whitelist_radius > args.radius_meters
    THEN args.whitelist_radius ELSE args.radius_meters

\* variant: the bound of the break is off by one
EnoughPlaces_OffByOne(valid) == Len(valid) >= 4

\* variant: the loop never breaks
EnoughPlaces_NoBreak(valid) == FALSE

\* variant: the loop breaks one place early
EnoughPlaces_Early(valid) == Len(valid) >= 2

\* len(valid_places) >= 3: the loop over processed_candidates breaks
EnoughPlaces(valid) == Len(valid) >= 3

\* variant: a closed check_time does not end the place's checks
AfterCheck_NoBreak(open, p, t) == [pi |-> p, ti |-> t + 1]

\* lines 66-69, after _check_is_open returned for place p at check_time t:
\* the next check_time of the same place, or `break` and the next place
AfterCheck(open, p, t) ==
    IF open THEN [pi |-> p, ti |-> t + 1] ELSE [pi |-> p + 1, ti |-> 1]

Init ==
    /\ args \in Args
    /\ pc = "category"
    /\ ci = 1
    /\ results = <<>>
    /\ candidates = <<>>
    /\ processed_candidates = <<>>
    /\ pi = 1
    /\ ti = 1
    /\ valid_places = <<>>
    /\ searches = <<>>
    /\ checks = <<>>
    /\ details = None

\* lines 26-27: no key, the mock record
MockCategory ==
    /\ pc = "category"
    /\ ci <= Len(args.categories_list)
    /\ NoKey(args.api_key)
    /\ results' = DictSet(results, category.name, _get_mock_places(category.keyword))
    /\ ci' = ci + 1
    /\ UNCHANGED <<args, pc, candidates, processed_candidates, pi, ti,
                   valid_places, searches, checks, details>>

\* lines 29-62: the search, the loop over candidates, the sort
FetchCategory ==
    /\ pc = "category"
    /\ ci <= Len(args.categories_list)
    /\ ~NoKey(args.api_key)
    /\ \E response \in SearchResponses(category.keyword) :
         LET cands == _fetch_candidates(response)
             done  == ProcessAll(cands, 1, <<>>, Theatre[1], Theatre[2],
                                 args.radius_meters, args.whitelist_radius,
                                 args.lists_config)
         IN  /\ candidates' = done.cands
             /\ searches' = Append(searches, [radius |-> search_radius,
                                              keyword |-> category.keyword,
                                              failed |-> response.kind = "error"])
             /\ IF FetchRaises(response) \/ done.raised
                THEN /\ pc' = "raised"
                     /\ processed_candidates' = <<>>
                ELSE /\ pc' = "verify"
                     /\ processed_candidates' = SortPlaces(done.places, Len(done.places))
    /\ pi' = 1
    /\ ti' = 1
    /\ valid_places' = <<>>
    /\ checks' = <<>>
    /\ details' = None
    /\ UNCHANGED <<args, ci, results>>

\* lines 66-69: one call of _check_is_open for `place` at `t`
CheckOpen ==
    /\ pc = "verify"
    /\ pi <= Len(processed_candidates)
    /\ ti <= Len(args.check_times)
    /\ \E response \in DetailsResponses :
         LET open == _check_is_open(response, args.check_times[ti])
         IN  /\ details' = Some(response)
             /\ checks' = Append(checks,
                   [place_id |-> processed_candidates[pi].place_id,
                    t |-> ti, open |-> open])
             /\ ti' = AfterCheck(open, pi, ti).ti
             /\ pi' = AfterCheck(open, pi, ti).pi
    /\ UNCHANGED <<args, pc, ci, results, candidates, processed_candidates,
                   valid_places, searches>>

\* lines 71-74: every check_time passed, `place` is accepted
AcceptPlace ==
    /\ pc = "verify"
    /\ pi <= Len(processed_candidates)
    /\ ti > Len(args.check_times)
    /\ valid_places' = Append(valid_places, processed_candidates[pi])
    /\ IF EnoughPlaces(valid_places')
       THEN pc' = "store"
       ELSE pc' = pc
    /\ pi' = pi + 1
    /\ ti' = 1
    /\ UNCHANGED <<args, ci, results, candidates, processed_candidates,
                   searches, checks, details>>

\* line 76: the loop is over (exhausted or broken), the category is stored
StoreCategory ==
    /\ \/ pc = "store"
       \/ pc = "verify" /\ pi > Len(processed_candidates)
    /\ results' = DictSet(results, category.name, valid_places)
    /\ ci' = ci + 1
    /\ pc' = "category"
    /\ UNCHANGED <<args, candidates, processed_candidates, pi, ti,
                   valid_places, searches, checks, details>>

\* line 78
Return ==
    /\ pc = "category"
    /\ ci > Len(args.categories_list)
    /\ pc' = "returned"
    /\ UNCHANGED <<args, ci, results, candidates, processed_candidates, pi, ti,
                   valid_places, searches, checks, details>>

Next ==
    \/ MockCategory
    \/ FetchCategory
    \/ CheckOpen
    \/ AcceptPlace
    \/ StoreCategory
    \/ Return

Spec == Init /\ [][Next]_vars

(***************************************************************************)
(* _check_is_open on its own: one call, for every opening-hours answer and *)
(* every checkpoint of the sets below.                                     *)
(***************************************************************************)
FridayDaytime ==
    Period(OpenAt(Some(5), Some(<<"0", "9", "0", "0">>)),
           CloseAt(Some(<<"1", "7", "0", "0">>)))

SaturdayEvening ==
    Period(OpenAt(Some(6), Some(<<"1", "8", "0", "0">>)),
           CloseAt(Some(<<"0", "2", "0", "0">>)))

FridayRoundTheClock ==
    Period(OpenAt(Some(5), Some(<<"1", "7", "0", "0">>)),
           CloseAt(Some(<<"1", "7", "0", "0">>)))

SundayDaytime ==
    Period(OpenAt(Some(0), Some(<<"0", "0", "0", "0">>)),
           CloseAt(Some(<<"1", "7", "0", "0">>)))

MondayDaytime ==
    Period(OpenAt(Some(1), Some(<<"0", "9", "0", "0">>)),
           CloseAt(Some(<<"1", "7", "0", "0">>)))

\* malformed: no "open"
PeriodNoOpen == Period(None, CloseAt(Some(<<"1", "7", "0", "0">>)))

\* malformed: no "close" (and not the always-open record)
FridayNoClose == Period(OpenAt(Some(5), Some(<<"1", "8", "0", "0">>)), None)

\* malformed: a time int() rejects
FridayBadTime ==
    Period(OpenAt(Some(5), Some(<<"1", "8", ":", "0">>)),
           CloseAt(Some(<<"2", "3", "0", "0">>)))

PeriodPool ==
    { AlwaysOpenPeriod, FridayEvening, FridayDaytime, SaturdayEvening,
      FridayRoundTheClock, SundayDaytime, MondayDaytime,
      PeriodNoOpen, FridayNoClose, FridayBadTime }

RECURSIVE SeqsUpTo(_, _)
SeqsUpTo(S, n) ==
    IF n = 0 THEN { <<>> }
    ELSE LET shorter == SeqsUpTo(S, n - 1)
         IN  shorter \cup { Append(q, x) : q \in shorter, x \in S }

DetailsNoPeriods ==
    [kind |-> "json", result |-> Some([opening_hours |-> Some([periods |-> None])])]

\* open from 00:00 to 23:59 on one day of the provider's week
AllDay(day) ==
    Period(OpenAt(Some(day), Some(<<"0", "0", "0", "0">>)),
           CloseAt(Some(<<"2", "3", "5", "9">>)))

AllDetailsResponses ==
    { DetailsError, DetailsNoResult, DetailsNoHours, DetailsNoPeriods }
    \cup { DetailsPeriods(ps) : ps \in SeqsUpTo(PeriodPool, MaxPeriods) }
    \cup { DetailsPeriods(<<AllDay(day)>>) : day \in 0..6 }

Checkpoints ==
    { DateTime(d, hm[1], hm[2]) :
        d \in 0..6, hm \in { <<1, 0>>, <<2, 0>>, <<17, 0>>, <<18, 0>>, <<23, 0>> } }

\* the place asked about and the answer in flight
InitOpen ==
    /\ args \in { [radius_meters |-> 1000, whitelist_radius |-> 1500,
                   categories_list |-> <<PreShow>>, check_times |-> <<t>>,
                   lists_config |-> [notes |-> None], api_key |-> Some("k")] :
                  t \in Checkpoints }
    /\ pc = "hours"
    /\ ci = 1
    /\ results = <<>>
    /\ candidates = <<>>
    /\ processed_candidates = <<>>
    /\ pi = 1
    /\ ti = 1
    /\ valid_places = <<>>
    /\ searches = <<>>
    /\ checks = <<>>
    /\ details \in { Some(r) : r \in AllDetailsResponses }

\* _check_is_open returns
IsOpenReturns ==
    /\ pc = "hours"
    /\ checks' = << [place_id |-> "g1", t |-> ti,
                     open |-> _check_is_open(Val(details), args.check_times[ti])] >>
    /\ pc' = "hours_done"
    /\ UNCHANGED <<args, ci, results, candidates, processed_candidates, pi, ti,
                   valid_places, searches, details>>

NextOpen == IsOpenReturns

SpecOpen == InitOpen /\ [][NextOpen]_vars

(***************************************************************************)
(* Properties of get_nearby_places.                                        *)
(***************************************************************************)
\* results[key]
DictGet(d, key) == d[CHOOSE i \in 1..Len(d) : d[i].key = key].value

\* the call has an api_key
Keyed == args.api_key \notin { None, Some("") }

\* the category at ci - 1 has just been stored: the locals still hold its run
JustStored == pc \in {"category", "returned"} /\ ci > 1

\* what was stored for it
Stored == DictGet(results, args.categories_list[ci - 1].name)

\* the lists of the category at hand that are or may become its result
CurrentLists ==
    { processed_candidates, valid_places } \cup (IF JustStored THEN { Stored } ELSE {})

\* every list now in the dict
ResultLists == { results[i].value : i \in 1..Len(results) }

\* the configured terms of a list, as written by the operator
ConfiguredTerms(key) ==
    IF key \notin DOMAIN args.lists_config THEN <<>>
    ELSE IF args.lists_config[key] = None THEN <<>>
    ELSE args.lists_config[key][1]

\* name matches a term of the list, both lowercased
ListHit(key, name) ==
    \E i \in 1..Len(ConfiguredTerms(key)) :
        Contains(Lower(ConfiguredTerms(key)[i]), Lower(name))

\* C1: on the keyed path no category's list, stored or under construction,
\* ever holds more than 3 places.
C1_AtMostThree ==
    Keyed => /\ \A L \in ResultLists : Len(L) <= 3
             /\ Len(valid_places) <= 3

\* a category with more than 3 ranked survivors was cut at 3
C1_Witness ==
    /\ Keyed
    /\ JustStored
    /\ Len(processed_candidates) > 3
    /\ Len(Stored) = 3

\* the place has an open check logged for every check_time and no closed one
ReportedOpenThroughout(place_id) ==
    /\ \A t \in 1..Len(args.check_times) :
          \E k \in 1..Len(checks) :
              checks[k] = [place_id |-> place_id, t |-> t, open |-> TRUE]
    /\ \A k \in 1..Len(checks) : checks[k].place_id = place_id => checks[k].open

\* C2: on the keyed path every place accepted or stored for the category was
\* reported open at every check_time, and no place with a closed check is
\* among them.
C2_OpenAtEveryCheckpoint ==
    Keyed => \A L \in { valid_places } \cup (IF JustStored THEN { Stored } ELSE {}) :
                \A i \in 1..Len(L) : ReportedOpenThroughout(L[i].place_id)

\* a place open at the first of two check_times and closed at the second is
\* left out of a category that returned another place
C2_Witness ==
    /\ Keyed
    /\ JustStored
    /\ pc = "returned"
    /\ Len(args.check_times) = 2
    /\ Len(Stored) > 0
    /\ \E k \in 2..Len(checks) :
          /\ checks[k].t = 2 /\ ~checks[k].open
          /\ checks[k - 1].place_id = checks[k].place_id /\ checks[k - 1].open
          /\ \A i \in 1..Len(Stored) : Stored[i].place_id # checks[k].place_id

\* C3: a candidate whose lowercased name contains a lowercased blacklist term
\* is never marked promoted and is in no ranked, accepted or returned list,
\* whatever the whitelist, its distance and its hours.
C3_BlacklistDominates ==
    Keyed =>
      /\ \A i \in 1..Len(candidates) :
            (candidates[i].name # None /\ ListHit("blacklist", candidates[i].name[1]))
            => /\ "is_promoted" \notin DOMAIN candidates[i]
               /\ \A L \in CurrentLists : \A j \in 1..Len(L) :
                     L[j].place_id # candidates[i].place_id
      /\ \A L \in ResultLists \cup CurrentLists : \A j \in 1..Len(L) :
            ~ListHit("blacklist", L[j].name[1])

\* "Joe's Sports Bar", matching both lists and within both radii, was a
\* candidate of a category that returned other places
C3_Witness ==
    /\ Keyed
    /\ JustStored
    /\ pc = "returned"
    /\ Len(Stored) > 0
    /\ \E i \in 1..Len(candidates) :
          /\ candidates[i].name = Some(JoesSportsBar)
          /\ ListHit("blacklist", JoesSportsBar)
          /\ ListHit("whitelist", JoesSportsBar)

\* the radius that bounds a place of its tier
TierRadius(place) ==
    IF place.is_promoted = 1 THEN args.whitelist_radius ELSE args.radius_meters

\* C4: every ranked, accepted or returned place lies within its tier's
\* radius, promoted meaning that the name matches the whitelist; and when the
\* loop over candidates completed, a candidate that got a distance is among
\* the ranked ones exactly when its distance does not exceed that radius.
C4_TierRadius ==
    Keyed =>
      /\ \A L \in ResultLists \cup CurrentLists : \A j \in 1..Len(L) :
            /\ L[j].distance_m <= TierRadius(L[j])
            /\ L[j].is_promoted = 1 <=> ListHit("whitelist", L[j].name[1])
      /\ pc # "raised" =>
            \A i \in 1..Len(candidates) :
               "distance_m" \in DOMAIN candidates[i] =>
                  ( (\E j \in 1..Len(processed_candidates) :
                        processed_candidates[j] = candidates[i])
                    <=> candidates[i].distance_m <= TierRadius(candidates[i]) )

\* base 1000, whitelist radius 2000: of two candidates at 1800 m the
\* whitelisted one is ranked and the other one dropped, and a candidate at
\* exactly 1000 m is ranked
C4_Witness ==
    /\ Keyed
    /\ args.radius_meters = 1000 /\ args.whitelist_radius = 2000
    /\ pc = "verify"
    /\ \E j \in 1..Len(processed_candidates) :
          /\ processed_candidates[j].distance_m = 1800
          /\ processed_candidates[j].is_promoted = 1
    /\ \E i \in 1..Len(candidates) :
          /\ "distance_m" \in DOMAIN candidates[i]
          /\ candidates[i].distance_m = 1800
          /\ candidates[i].is_promoted = 0
          /\ \A j \in 1..Len(processed_candidates) :
                processed_candidates[j] # candidates[i]
    /\ \E j \in 1..Len(processed_candidates) :
          /\ processed_candidates[j].distance_m = 1000
          /\ processed_candidates[j].is_promoted = 0

\* position of a place in the provider's answer
ProviderPos(place_id) ==
    CHOOSE i \in 1..Len(candidates) : candidates[i].place_id = place_id

\* promoted first, then ascending distance
RankOrdered(L) ==
    \A i \in 1..Len(L) : \A j \in (i + 1)..Len(L) :
        /\ L[i].is_promoted >= L[j].is_promoted
        /\ L[i].is_promoted = L[j].is_promoted => L[i].distance_m <= L[j].distance_m

\* equal tier and distance: provider order
TiesInProviderOrder(L) ==
    \A i \in 1..Len(L) : \A j \in (i + 1)..Len(L) :
        (L[i].is_promoted = L[j].is_promoted /\ L[i].distance_m = L[j].distance_m)
        => ProviderPos(L[i].place_id) < ProviderPos(L[j].place_id)

\* C5: every list is ordered promoted first, then by ascending distance, and
\* places of one tier at one distance keep the order of the provider's answer.
C5_RankOrder ==
    Keyed => /\ \A L \in ResultLists \cup CurrentLists : RankOrdered(L)
             /\ \A L \in CurrentLists : TiesInProviderOrder(L)

\* a promoted place at 1800 m is returned ahead of two ordinary places at
\* 500 m, which the provider had listed as g5 before g4
C5_Witness ==
    /\ Keyed
    /\ JustStored
    /\ pc = "returned"
    /\ Len(Stored) = 3
    /\ Stored[1].is_promoted = 1 /\ Stored[1].distance_m = 1800
    /\ Stored[2].place_id = "g5" /\ Stored[3].place_id = "g4"
    /\ Stored[2].distance_m = Stored[3].distance_m
    /\ Stored[2].is_promoted = 0 /\ Stored[3].is_promoted = 0

(***************************************************************************)
(* Properties of _check_is_open.  They read the last answer of the details *)
(* endpoint and the last check logged.                                     *)
(***************************************************************************)
\* _check_is_open has returned
Checked == checks # <<>> /\ details # None

LastCheck == checks[Len(checks)]

\* the check_time of the last check
CheckedAt == args.check_times[LastCheck.t]

\* its day in the provider's numbering and its time as HHMM
CheckedDay == (CheckedAt.weekday + 1) % 7

CheckedHHMM == CheckedAt.hour * 100 + CheckedAt.minute

\* the answer carries no opening hours: the call failed, or "result" or
\* "opening_hours" is missing
HoursMissing ==
    \/ details[1].kind = "error"
    \/ details[1].result = None
    \/ details[1].result # None /\ details[1].result[1].opening_hours = None

\* the periods of the answer
AnsweredPeriods ==
    IF HoursMissing THEN <<>>
    ELSE IF details[1].result[1].opening_hours[1].periods = None THEN <<>>
    ELSE details[1].result[1].opening_hours[1].periods[1]

\* a time of a period is absent or not a number
BadTime(o) == IF o = None THEN TRUE ELSE ~IsNumeric(o[1])

\* the period is the record "day 0, 0000, no close"
Sentinel(p) ==
    /\ p.open # None
    /\ p.open[1].day = Some(0)
    /\ p.open[1].time = Some(<<"0", "0", "0", "0">>)
    /\ p.close = None

\* the record lacks a member or carries a time that is no number
Malformed(p) ==
    IF p.open = None THEN TRUE
    ELSE IF p.open[1].day = None THEN TRUE
    ELSE IF Sentinel(p) THEN FALSE
    ELSE IF BadTime(p.open[1].time) THEN TRUE
    ELSE IF p.close = None THEN TRUE
    ELSE BadTime(p.close[1].time)

\* the record lacks a member the scan reads at this checkpoint: "open" or
\* its day, or, on the checkpoint's day, a numeric open or close time
MalformedWhereRead(p) ==
    IF p.open = None THEN TRUE
    ELSE IF p.open[1].day = None THEN TRUE
    ELSE IF Sentinel(p) THEN FALSE
    ELSE IF p.open[1].day # Some(CheckedDay) THEN FALSE
    ELSE Malformed(p)

\* open <= t < close, or across midnight t >= open or t < close
WindowCovers(o, c, t) ==
    \/ o < c /\ o <= t /\ t < c
    \/ o >= c /\ (t >= o \/ t < c)

\* the period says open at the checkpoint
Matches(p) ==
    IF MalformedWhereRead(p) THEN FALSE
    ELSE IF Sentinel(p) THEN TRUE
    ELSE IF p.open[1].day # Some(CheckedDay) THEN FALSE
    ELSE WindowCovers(IntOf(p.open[1].time[1]), IntOf(p.close[1].time[1]), CheckedHHMM)

\* C6 as claimed: the check is false whenever hours are missing, the call
\* fails, some period record is malformed, or no period matches.
C6_ClosedWheneverMalformed ==
    Checked =>
      ( ( \/ HoursMissing
          \/ \E i \in 1..Len(AnsweredPeriods) : Malformed(AnsweredPeriods[i])
          \/ \A i \in 1..Len(AnsweredPeriods) : ~Matches(AnsweredPeriods[i]) )
        => ~LastCheck.open )

\* C6 as amended: the check is false whenever hours are missing, the call
\* fails, the scan comes to a period malformed where it is read before any
\* period matched, or no period matches.
C6_ClosedWhenUnverifiable ==
    Checked =>
      ( ( \/ HoursMissing
          \/ \E i \in 1..Len(AnsweredPeriods) :
                /\ MalformedWhereRead(AnsweredPeriods[i])
                /\ \A j \in 1..(i - 1) : ~Matches(AnsweredPeriods[j])
          \/ \A i \in 1..Len(AnsweredPeriods) : ~Matches(AnsweredPeriods[i]) )
        => ~LastCheck.open )

\* a record without "open" ahead of a period that covers the checkpoint:
\* reported closed
C6_Witness ==
    /\ Checked
    /\ AnsweredPeriods = <<PeriodNoOpen, FridayEvening>>
    /\ CheckedAt = Friday(23, 0)
    /\ ~LastCheck.open

(***************************************************************************)
(* Properties of the no-key path and of failures.                          *)
(***************************************************************************)
NoKeyCall == args.api_key \in { None, Some("") }

\* C7: without an api_key (None or empty) every category handled so far has
\* an entry, every entry is the one fixed mock record, nothing is raised and
\* neither endpoint is called.
C7_MockPath ==
    NoKeyCall =>
      /\ pc # "raised"
      /\ searches = <<>> /\ checks = <<>> /\ details = None
      /\ \A i \in 1..Len(results) :
            results[i].value =
              << [name |-> <<"M","o","c","k"," ","P","l","a","c","e">>,
                  rating |-> "5.0", address |-> "123 Mock St", distance_m |-> 100] >>
      /\ \A i \in 1..(ci - 1) :
            \E k \in 1..Len(results) : results[k].key = args.categories_list[i].name

\* a call with the empty key returned two mock entries
C7_Witness ==
    /\ args.api_key = Some("")
    /\ pc = "returned"
    /\ Len(results) = 2

\* C8: a failing candidate search is not raised: the category runs on with
\* no candidates and is stored as the empty list; and a call that returns
\* has searched every category and holds an entry for each.
C8_SearchFailureTolerated ==
    Keyed =>
      /\ (searches # <<>> /\ searches[Len(searches)].failed) =>
            /\ pc # "raised"
            /\ candidates = <<>> /\ processed_candidates = <<>> /\ valid_places = <<>>
            /\ JustStored => Stored = <<>>
      /\ pc = "returned" =>
            /\ Len(searches) = Len(args.categories_list)
            /\ \A i \in 1..Len(args.categories_list) :
                  \E k \in 1..Len(results) :
                      results[k].key = args.categories_list[i].name

\* the search of the first category failed, the second category returned a
\* place
C8_Witness ==
    /\ Keyed
    /\ pc = "returned"
    /\ Len(searches) = 2
    /\ searches[1].failed /\ ~searches[2].failed
    /\ Len(results) = 2
    /\ results[1].value = <<>>
    /\ Len(results[2].value) > 0

\* C9 as claimed: a malformed candidate record is skipped and
\* get_nearby_places raises nothing.
C9_MalformedCandidateSkipped ==
    Keyed => pc # "raised"

\* C10: when every period of the answer is well formed and none is the
\* always-open record, the check is true exactly when some period of the
\* checkpoint's day has open <= t < close (open < close) or t >= open or
\* t < close (open >= close); and for {open 1800, close 0200} on the
\* checkpoint's day 23:00, 01:00 and 18:00 are open, 17:00 and 02:00 closed.
C10_WindowRule ==
    Checked =>
      /\ (~HoursMissing /\ \A i \in 1..Len(AnsweredPeriods) :
                              ~Malformed(AnsweredPeriods[i]) /\ ~Sentinel(AnsweredPeriods[i]))
         => ( LastCheck.open <=>
                \E i \in 1..Len(AnsweredPeriods) :
                    /\ AnsweredPeriods[i].open[1].day = Some(CheckedDay)
                    /\ WindowCovers(IntOf(AnsweredPeriods[i].open[1].time[1]),
                                    IntOf(AnsweredPeriods[i].close[1].time[1]),
                                    CheckedHHMM) )
      /\ (AnsweredPeriods = <<FridayEvening>> /\ CheckedAt.weekday = 4)
         => ( LastCheck.open <=> CheckedHHMM \in { 2300, 100, 1800 } )

\* exactly 02:00 against {open 1800, close 0200}: closed
C10_Witness ==
    /\ Checked
    /\ AnsweredPeriods = <<FridayEvening>>
    /\ CheckedAt = Friday(2, 0)
    /\ ~LastCheck.open

(***************************************************************************)
(* Properties of the always-open record and of the day conversion.         *)
(***************************************************************************)
\* C11 as claimed: when some period of the answer is the always-open record,
\* the check is true, whatever the checkpoint, the other periods and the
\* record's position.
C11_SentinelAnywhere ==
    Checked =>
      ( (\E i \in 1..Len(AnsweredPeriods) : Sentinel(AnsweredPeriods[i]))
        => LastCheck.open )

\* C11 as amended: when some period of the answer is the always-open record
\* and no period ahead of it is malformed where the scan reads it, the check
\* is true, whatever the checkpoint, the other periods and the record's
\* position.
C11_SentinelReached ==
    Checked =>
      \A i \in 1..Len(AnsweredPeriods) :
         ( /\ Sentinel(AnsweredPeriods[i])
           /\ \A j \in 1..(i - 1) : ~MalformedWhereRead(AnsweredPeriods[j]) )
         => LastCheck.open

\* the always-open record behind a period of another day, asked on a
\* Wednesday at 02:00: open
C11_Witness ==
    /\ Checked
    /\ AnsweredPeriods = <<FridayDaytime, AlwaysOpenPeriod>>
    /\ CheckedAt = DateTime(2, 2, 0)
    /\ LastCheck.open

\* the provider's day for each weekday of the caller, Monday first
ProviderDayOf == <<1, 2, 3, 4, 5, 6, 0>>

\* the provider's day of the last check's checkpoint
ConvertedDay == ProviderDayOf[CheckedAt.weekday + 1]

\* C12: the caller's weekday d is compared as provider day (d + 1) mod 7,
\* Monday as 1 and Sunday as 0: a venue open all day on one provider day is
\* open exactly on the one weekday that converts to it, and an answer whose
\* periods are all on other days is closed, whatever their times.
C12_DayRotation ==
    Checked =>
      /\ ConvertedDay = (CheckedAt.weekday + 1) % 7
      /\ \A g \in 0..6 :
            AnsweredPeriods = <<AllDay(g)>> => (LastCheck.open <=> g = ConvertedDay)
      /\ ( /\ ~HoursMissing
           /\ \A i \in 1..Len(AnsweredPeriods) :
                 /\ AnsweredPeriods[i].open # None
                 /\ AnsweredPeriods[i].open[1].day \notin { None, Some(ConvertedDay) }
                 /\ ~Sentinel(AnsweredPeriods[i]) )
         => ~LastCheck.open

\* a Sunday checkpoint (weekday 6) against a venue open all of provider
\* day 0: open
C12_Witness ==
    /\ Checked
    /\ AnsweredPeriods = <<AllDay(0)>>
    /\ CheckedAt.weekday = 6
    /\ LastCheck.open

(***************************************************************************)
(* Properties of the calls made and of the mapping returned.               *)
(***************************************************************************)
\* C13: the k-th search request is the one of the k-th category and carries
\* the larger of radius_meters and whitelist_radius, whichever that is.
C13_SearchRadius ==
    Keyed =>
      \A k \in 1..Len(searches) :
         /\ searches[k].keyword = args.categories_list[k].keyword
         /\ searches[k].radius \in { args.radius_meters, args.whitelist_radius }
         /\ searches[k].radius >= args.radius_meters
         /\ searches[k].radius >= args.whitelist_radius

\* a call with the whitelist radius below the base radius searched two
\* categories, both with the base radius
C13_Witness ==
    /\ Keyed
    /\ pc = "returned"
    /\ args.whitelist_radius < args.radius_meters
    /\ Len(searches) = 2
    /\ searches[1].radius = args.radius_meters
    /\ searches[2].radius = args.radius_meters

\* the names of a list of categories, each once, in order of first occurrence
RECURSIVE FirstNames(_)
FirstNames(cats) ==
    IF cats = <<>> THEN <<>>
    ELSE LET front == FirstNames(SubSeq(cats, 1, Len(cats) - 1))
             name  == cats[Len(cats)].name
         IN  IF \E i \in 1..Len(front) : front[i] = name THEN front
             ELSE Append(front, name)

\* the keys of a mapping, in its order
Keys(d) == [i \in 1..Len(d) |-> d[i].key]

\* the call has ended, by return or by an exception
Ended == pc \in { "returned", "raised" }

\* what the caller receives: the mapping, or none when the call raised
Delivered == IF pc = "returned" THEN results ELSE <<>>

\* the identifiers of the places the provider knows for a keyword
PoolIds(keyword) ==
    { KnownPlaces(keyword)[i].place_id : i \in 1..Len(KnownPlaces(keyword)) }

\* the locals of the category at hand hold places of its own search only,
\* and its checks are about those
OwnPlacesOnly ==
    (Keyed /\ pc \in { "verify", "store" }) =>
      /\ \A L \in { candidates, processed_candidates, valid_places } :
            \A i \in 1..Len(L) : L[i].place_id \in PoolIds(category.keyword)
      /\ \A k \in 1..Len(checks) :
            \E i \in 1..Len(processed_candidates) :
                processed_candidates[i].place_id = checks[k].place_id

\* the entries of the mapping are those of the categories handled so far,
\* one per name, in input order
EntriesInInputOrder ==
    Keys(results) = FirstNames(SubSeq(args.categories_list, 1, ci - 1))

\* every category resolved before the call ended has its entry in what the
\* caller receives, with the list resolved for it
ResolvedIsDelivered ==
    Ended =>
      \A i \in 1..(ci - 1) :
         \E k \in 1..Len(Delivered) :
            /\ Delivered[k].key = args.categories_list[i].name
            /\ Delivered[k].value = DictGet(results, args.categories_list[i].name)

\* C14 as claimed: a category is resolved from its own search and its own
\* checks, the mapping has one entry per category in input order, and the
\* list resolved for a category reaches the caller whatever the provider
\* answers for the other categories.
C14_CategoriesIndependent ==
    /\ OwnPlacesOnly
    /\ EntriesInInputOrder
    /\ ResolvedIsDelivered

\* the keys under which a record carries the six fields of a recommendation
RecommendationFields ==
    { "name", "rating", "address", "distance_m", "map_url", "is_promoted" }

\* every record of every list now in the mapping carries the six fields
RecordsComplete ==
    \A L \in ResultLists : \A i \in 1..Len(L) :
        RecommendationFields \subseteq DOMAIN L[i]

\* on the keyed path every ranked, accepted or stored record carries them
KeyedRecordsComplete ==
    Keyed => /\ RecordsComplete
             /\ \A L \in CurrentLists : \A i \in 1..Len(L) :
                    RecommendationFields \subseteq DOMAIN L[i]

\* C16 as claimed: every record returned, with or without an api_key,
\* carries name, rating, address, distance, map reference and is_promoted.
C16_SixFields ==
    pc = "returned" => RecordsComplete

(***************************************************************************)
(* calculate_distance on its own: both directions of every ordered pair of *)
(* Coords.  results holds what each call gave: Some(metres), or None when  *)
(* the call raised.                                                        *)
(***************************************************************************)
\* a call of calculate_distance: the distance it returns, or None on raise
DistanceCall(lat1, lon1, lat2, lon2) ==
    IF MathDomainError(lat1, lon1, lat2, lon2) THEN None
    ELSE Some(calculate_distance(lat1, lon1, lat2, lon2))

InitGeo ==
    /\ args \in { [lat1 |-> a[1], lon1 |-> a[2], lat2 |-> b[1], lon2 |-> b[2]] :
                    a \in Coords, b \in Coords }
    /\ pc = "distance"
    /\ ci = 1
    /\ results = <<>>
    /\ candidates = <<>>
    /\ processed_candidates = <<>>
    /\ pi = 1
    /\ ti = 1
    /\ valid_places = <<>>
    /\ searches = <<>>
    /\ checks = <<>>
    /\ details = None

\* calculate_distance(lat1, lon1, lat2, lon2)
DistanceForth ==
    /\ pc = "distance"
    /\ \A i \in 1..Len(results) : results[i].key # "forth"
    /\ results' = DictSet(results, "forth",
                      DistanceCall(args.lat1, args.lon1, args.lat2, args.lon2))
    /\ UNCHANGED <<args, pc, ci, candidates, processed_candidates, pi, ti,
                   valid_places, searches, checks, details>>

\* calculate_distance(lat2, lon2, lat1, lon1)
DistanceBack ==
    /\ pc = "distance"
    /\ \A i \in 1..Len(results) : results[i].key # "back"
    /\ results' = DictSet(results, "back",
                      DistanceCall(args.lat2, args.lon2, args.lat1, args.lon1))
    /\ UNCHANGED <<args, pc, ci, candidates, processed_candidates, pi, ti,
                   valid_places, searches, checks, details>>

NextGeo ==
    \/ DistanceForth
    \/ DistanceBack

SpecGeo == InitGeo /\ [][NextGeo]_vars

\* both directions have been computed
BothWays == pc = "distance" /\ Len(results) = 2

\* the two points of the call are one point
SamePoint == args.lat1 = args.lat2 /\ args.lon1 = args.lon2

\* wherever calculate_distance returns, the distance is not negative, zero
\* on one point, and the same in both directions; and it raises one way
\* exactly when it raises the other way
SymmetricWhereDefined ==
    pc = "distance" =>
      /\ \A i \in 1..Len(results) :
            results[i].value # None =>
               /\ results[i].value[1] >= 0
               /\ SamePoint => results[i].value[1] = 0
      /\ BothWays => results[1].value = results[2].value
      /\ \A i \in 1..Len(results) : SamePoint => results[i].value # None

\* C17 as claimed: for all coordinates calculate_distance gives a distance,
\* which is not negative, zero on one point, and the same in both
\* directions.
C17_DistanceSymmetric ==
    pc = "distance" =>
      /\ \A i \in 1..Len(results) :
            /\ results[i].value # None
            /\ results[i].value # None => results[i].value[1] >= 0
            /\ (results[i].value # None /\ SamePoint) => results[i].value[1] = 0
      /\ BothWays => results[1].value = results[2].value

(***************************************************************************)
(* Properties of the selection among the ranked survivors.                 *)
(***************************************************************************)
\* the place has a check logged that reported it closed
ReportedClosed(place_id) ==
    \E k \in 1..Len(checks) : checks[k].place_id = place_id /\ ~checks[k].open

\* the ranked survivors reported open at every check_time, in rank order
Qualified ==
    SelectSeq(processed_candidates,
              LAMBDA p : ReportedOpenThroughout(p.place_id))

\* the first n elements of a sequence, or all of it
FirstN(s, n) == SubSeq(s, 1, IF Len(s) < n THEN Len(s) ELSE n)

\* rank of a ranked survivor
RankOf(place_id) ==
    CHOOSE i \in 1..Len(processed_candidates) :
        processed_candidates[i].place_id = place_id

\* C18: the list stored for a category is the first min(3, k) of its ranked
\* survivors reported open at every check_time, in rank order; a survivor
\* ranked ahead of a stored one is stored too unless a check reported it
\* closed; and a list shorter than 3 means that every survivor left out was
\* reported closed.
C18_FirstThreeQualified ==
    (Keyed /\ JustStored) =>
      /\ Stored = FirstN(Qualified, 3)
      /\ \A i \in 1..Len(processed_candidates) :
            LET id == processed_candidates[i].place_id
                stored == \E j \in 1..Len(Stored) : Stored[j].place_id = id
            IN  /\ (\E j \in 1..Len(Stored) : i < RankOf(Stored[j].place_id))
                      => (stored \/ ReportedClosed(id))
                /\ Len(Stored) < 3 => (stored \/ ReportedClosed(id))

\* of four ranked survivors the second was reported closed at the second
\* of two check_times: the first, third and fourth are returned
C18_Witness ==
    /\ Keyed
    /\ JustStored
    /\ pc = "returned"
    /\ Len(args.check_times) = 2
    /\ Len(processed_candidates) = 4
    /\ ReportedClosed(processed_candidates[2].place_id)
    /\ Stored = << processed_candidates[1], processed_candidates[3],
                   processed_candidates[4] >>

\* the third place accepted for the category at hand
ThirdAccepted == valid_places[3]

\* C19: once three places are accepted, the loop over the ranked survivors
\* is over and every check of the category is about a survivor ranked no
\* lower than the third accepted one.
C19_NoCheckBeyondThird ==
    (Keyed /\ Len(valid_places) >= 3) =>
      /\ pc # "verify"
      /\ \A k \in 1..Len(checks) :
            RankOf(checks[k].place_id) <= RankOf(ThirdAccepted.place_id)

\* the first three of four ranked survivors were checked and accepted, the
\* fourth was never checked
C19_Witness ==
    /\ Keyed
    /\ pc = "returned"
    /\ Len(args.check_times) > 0
    /\ Len(processed_candidates) = 4
    /\ Len(valid_places) = 3
    /\ Len(checks) = 3 * Len(args.check_times)
    /\ \A k \in 1..Len(checks) :
          checks[k].place_id # processed_candidates[4].place_id

\* C20 as claimed: the checks of a category number at most 3 plus the rank
\* of the third accepted survivor.
C20_ChecksAtMostThreePlusRank ==
    (Keyed /\ Len(valid_places) >= 3) =>
      Len(checks) <= 3 + RankOf(ThirdAccepted.place_id)

\* C20 as amended: the checks of a category number at most the number of
\* check_times times the rank of the third accepted survivor.
C20_ChecksAtMostTimesRank ==
    (Keyed /\ Len(valid_places) >= 3) =>
      Len(checks) <= Len(args.check_times) * RankOf(ThirdAccepted.place_id)

\* two check_times, the third accepted survivor ranked fourth, a survivor
\* ahead of it closed at the second check_time only: 8 checks
C20_Witness ==
    /\ Keyed
    /\ Len(valid_places) >= 3
    /\ Len(args.check_times) = 2
    /\ RankOf(ThirdAccepted.place_id) = 4
    /\ Len(checks) = 8

(***************************************************************************)
(* Properties of the order of the availability checks.                    *)
(***************************************************************************)
\* the candidate was neither dropped by the blacklist nor by its radius
Survived(c) ==
    /\ c.name # None
    /\ ~ListHit("blacklist", c.name[1])
    /\ "distance_m" \in DOMAIN c
    /\ c.distance_m <= TierRadius(c)

\* the loop over candidates has dealt with the candidate: it was dropped by
\* the blacklist, or it got its tier and its distance
Classified(c) ==
    /\ c.name # None
    /\ ListHit("blacklist", c.name[1]) \/ "distance_m" \in DOMAIN c

\* the checks go down the ranking: for one place the check_times from the
\* first on, each after an open one, then the next place checked
ChecksInRankOrder ==
    /\ checks # <<>> => checks[1].t = 1
    /\ \A k \in 2..Len(checks) :
          IF checks[k].place_id = checks[k - 1].place_id
          THEN checks[k - 1].open /\ checks[k].t = checks[k - 1].t + 1
          ELSE /\ checks[k].t = 1
               /\ RankOf(checks[k - 1].place_id) < RankOf(checks[k].place_id)

\* C21: when a check has been made, every candidate of the category has
\* been classified and the survivors are ranked; every check is about a
\* candidate that passed the blacklist and its radius; and the checks go
\* down the ranking, all of one place before any of the next.
C21_ChecksAfterRanking ==
    (Keyed /\ checks # <<>>) =>
      /\ pc # "raised"
      /\ \A i \in 1..Len(candidates) : Classified(candidates[i])
      /\ RankOrdered(processed_candidates)
      /\ \A k \in 1..Len(checks) :
            \E i \in 1..Len(candidates) :
               /\ candidates[i].place_id = checks[k].place_id
               /\ Survived(candidates[i])
      /\ ChecksInRankOrder

\* a promoted place at 1800 m was checked twice, then an ordinary place at
\* 500 m, while a candidate dropped by its radius was never checked
C21_Witness ==
    /\ Keyed
    /\ pc = "verify"
    /\ Len(checks) = 3
    /\ checks[1].place_id = checks[2].place_id
    /\ checks[3].place_id # checks[2].place_id
    /\ processed_candidates[1].is_promoted = 1
    /\ processed_candidates[1].distance_m = 1800
    /\ processed_candidates[2].distance_m = 500
    /\ \E i \in 1..Len(candidates) :
          /\ "distance_m" \in DOMAIN candidates[i]
          /\ ~Survived(candidates[i])

\* the pairs (place, check_time) of the category that no check asked about
Unchecked ==
    { pt \in { processed_candidates[i].place_id :
                   i \in 1..Len(processed_candidates) }
              \X (1..Len(args.check_times)) :
        \A k \in 1..Len(checks) :
            checks[k].place_id # pt[1] \/ checks[k].t # pt[2] }

\* the oracle's answer for a pair: the one logged, or the one w gives to a
\* pair never asked about
Answer(w, place_id, t) ==
    IF <<place_id, t>> \in Unchecked THEN w[<<place_id, t>>]
    ELSE LET k == CHOOSE k \in 1..Len(checks) :
                      checks[k].place_id = place_id /\ checks[k].t = t
         IN  checks[k].open

\* every check_time of every ranked survivor evaluated and AND-reduced,
\* then the first three taken
FullEvaluation(w) ==
    FirstN(SelectSeq(processed_candidates,
                     LAMBDA p : \A t \in 1..Len(args.check_times) :
                                   Answer(w, p.place_id, t)), 3)

\* C22: a place is asked about once per check_time at most, in the order of
\* check_times, and not again after a closed answer; and whatever the
\* oracle would have answered for the pairs never asked about, evaluating
\* every check_time of every survivor and AND-reducing gives the list that
\* was stored.
C22_ShortCircuitEquivalent ==
    (Keyed /\ JustStored) =>
      /\ \A k \in 1..Len(checks) : \A l \in (k + 1)..Len(checks) :
            checks[k].place_id = checks[l].place_id
            => (checks[k].open /\ checks[k].t < checks[l].t)
      /\ \A w \in [Unchecked -> BOOLEAN] : FullEvaluation(w) = Stored

\* with two check_times a survivor was closed at the first one, so that its
\* second was never asked about, and a place ranked behind it was returned
C22_Witness ==
    /\ Keyed
    /\ JustStored
    /\ pc = "returned"
    /\ Len(args.check_times) = 2
    /\ Len(Stored) > 0
    /\ \E k \in 1..Len(checks) :
          /\ checks[k].t = 1 /\ ~checks[k].open
          /\ <<checks[k].place_id, 2>> \in Unchecked
          /\ RankOf(checks[k].place_id) < RankOf(Stored[1].place_id)

(***************************************************************************)
(* Termination.  The call runs in one thread and every collaborator call   *)
(* comes back, so a step that can be taken is taken.                       *)
(***************************************************************************)
SpecFair == Init /\ [][Next]_vars /\ WF_vars(Next)

\* the call ends, by return or by an exception
CallEnds == <>Ended

\* a category is stored collected (three accepted) or exhausted (every
\* ranked survivor consumed, fewer than three accepted)
StoredCollectedOrExhausted ==
    (Keyed /\ JustStored) =>
      \/ Len(Stored) = 3
      \/ Len(Stored) < 3 /\ pi > Len(processed_candidates)

\* C23 as claimed: every call of get_nearby_places comes to return.
C23_CallReturns == <>(pc = "returned")

(***************************************************************************)
(* Properties of unusual arguments.                                        *)
(***************************************************************************)
\* the candidate is among the ranked survivors
Ranked(c) ==
    \E j \in 1..Len(processed_candidates) :
        processed_candidates[j].place_id = c.place_id

\* the candidate passed the blacklist and got a distance above the
\* whitelist radius and not above the base radius
BetweenRadii(c) ==
    /\ c.name # None
    /\ ~ListHit("blacklist", c.name[1])
    /\ "distance_m" \in DOMAIN c
    /\ args.whitelist_radius < c.distance_m
    /\ c.distance_m <= args.radius_meters

\* C24: with whitelist_radius below radius_meters, a candidate between the
\* two radii is dropped when its name matches the whitelist and kept when
\* it does not.
C24_PromotionCanExclude ==
    (Keyed /\ pc # "raised" /\ args.whitelist_radius < args.radius_meters) =>
      \A i \in 1..Len(candidates) :
         BetweenRadii(candidates[i]) =>
            (Ranked(candidates[i]) <=> ~ListHit("whitelist", candidates[i].name[1]))

\* whitelist radius 1000, base radius 2000: of two candidates at 1800 m
\* the whitelisted one was dropped and the ordinary one was returned
C24_Witness ==
    /\ Keyed
    /\ JustStored
    /\ pc = "returned"
    /\ args.whitelist_radius = 1000 /\ args.radius_meters = 2000
    /\ \E i \in 1..Len(candidates) :
          /\ BetweenRadii(candidates[i])
          /\ candidates[i].distance_m = 1800
          /\ ListHit("whitelist", candidates[i].name[1])
          /\ ~Ranked(candidates[i])
    /\ \E j \in 1..Len(Stored) :
          /\ Stored[j].distance_m = 1800
          /\ Stored[j].is_promoted = 0

\* C25: with an api_key and no check_times, no availability check is made
\* and the list stored for a category is the first three of its ranked
\* survivors, or all of them when they are fewer.
C25_NoCheckTimes ==
    (Keyed /\ args.check_times = <<>>) =>
      /\ checks = <<>>
      /\ details = None
      /\ JustStored => Stored = FirstN(processed_candidates, 3)

\* four ranked survivors, no check_times: the first three were returned
\* and nothing was checked
C25_Witness ==
    /\ Keyed
    /\ args.check_times = <<>>
    /\ JustStored
    /\ pc = "returned"
    /\ Len(processed_candidates) = 4
    /\ Stored = SubSeq(processed_candidates, 1, 3)
    /\ checks = <<>>

(***************************************************************************)
(* Properties of windows across midnight.                                  *)
(***************************************************************************)
\* the answer is the one period p, well formed, opening later in the day
\* than it closes
OnlyOvernight(p) ==
    /\ AnsweredPeriods = <<p>>
    /\ ~Malformed(p) /\ ~Sentinel(p)
    /\ IntOf(p.open[1].time[1]) > IntOf(p.close[1].time[1])

\* C26: a check is true only by the always-open record or by a period of
\* the checkpoint's converted day; a venue whose one period opens on day d
\* and closes after midnight is closed at a checkpoint of day d + 1 before
\* the closing time, and open at a checkpoint of day d before the closing
\* time.
C26_OpenDayOnly ==
    Checked =>
      /\ LastCheck.open =>
            \E i \in 1..Len(AnsweredPeriods) :
               \/ Sentinel(AnsweredPeriods[i])
               \/ /\ AnsweredPeriods[i].open # None
                  /\ AnsweredPeriods[i].open[1].day = Some(ConvertedDay)
      /\ \A p \in PeriodPool :
            (OnlyOvernight(p) /\ CheckedHHMM < IntOf(p.close[1].time[1])) =>
               /\ ConvertedDay = (p.open[1].day[1] + 1) % 7 => ~LastCheck.open
               /\ ConvertedDay = p.open[1].day[1] => LastCheck.open

\* {provider day 5, 1800 to 0200} asked on a Saturday at 01:00: closed
C26_Witness ==
    /\ Checked
    /\ AnsweredPeriods = <<FridayEvening>>
    /\ CheckedAt = DateTime(5, 1, 0)
    /\ ~LastCheck.open

\* a well-formed period of the checkpoint's converted day whose open time
\* equals its close time
EqualTimes(p) ==
    /\ ~Malformed(p) /\ ~Sentinel(p)
    /\ p.open[1].day = Some(ConvertedDay)
    /\ IntOf(p.open[1].time[1]) = IntOf(p.close[1].time[1])

\* C27 as claimed: when some period of the answer is on the checkpoint's
\* converted day with equal open and close times, the check is true at every
\* time of that day.
C27_EqualTimesAlwaysOpen ==
    Checked =>
      ( (\E i \in 1..Len(AnsweredPeriods) : EqualTimes(AnsweredPeriods[i]))
        => LastCheck.open )

\* C27 as amended: when some period of the answer is on the checkpoint's
\* converted day with equal open and close times, and no period ahead of it
\* is malformed where the scan reads it, the check is true at every time of
\* that day.
C27_EqualTimesReached ==
    Checked =>
      \A i \in 1..Len(AnsweredPeriods) :
         ( /\ EqualTimes(AnsweredPeriods[i])
           /\ \A j \in 1..(i - 1) : ~MalformedWhereRead(AnsweredPeriods[j]) )
         => LastCheck.open

\* {provider day 5, 1700 to 1700} behind a Monday period, asked on a Friday
\* at 01:00: open
C27_Witness ==
    /\ Checked
    /\ AnsweredPeriods = <<MondayDaytime, FridayRoundTheClock>>
    /\ CheckedAt = Friday(1, 0)
    /\ LastCheck.open

(***************************************************************************)
(* Properties of the output mapping.                                       *)
(***************************************************************************)
\* the categories handled so far
Handled == SubSeq(args.categories_list, 1, ci - 1)

\* no name is the key of two entries
KeysDistinct ==
    \A i, j \in 1..Len(results) : results[i].key = results[j].key => i = j

\* with a key, one search was made per category handled, duplicates
\* included, in input order
EachLookedUp ==
    Keyed =>
      /\ Len(searches) >= Len(Handled)
      /\ \A i \in 1..Len(Handled) : searches[i].keyword = Handled[i].keyword

\* C28: the mapping has exactly one entry per distinct name of the
\* categories handled; every category, one sharing its name with an earlier
\* one included, is looked up in input order; and the entry of a name holds
\* the list of the latest category of that name.
C28_OneEntryPerName ==
    /\ KeysDistinct
    /\ { results[i].key : i \in 1..Len(results) }
         = { Handled[i].name : i \in 1..Len(Handled) }
    /\ EachLookedUp
    /\ (Keyed /\ JustStored) => Stored = valid_places
    /\ pc = "returned" => Len(Handled) = Len(args.categories_list)

\* two categories named post_show, keywords drinks then dessert: two
\* searches, one entry, holding places of the dessert search
C28_Witness ==
    /\ Keyed
    /\ pc = "returned"
    /\ args.categories_list = <<PostShow, PostShowDessert>>
    /\ Len(searches) = 2
    /\ searches[1].keyword = "drinks" /\ searches[2].keyword = "dessert"
    /\ Len(results) = 1
    /\ results[1].key = "post_show"
    /\ results[1].value # <<>>
    /\ \A i \in 1..Len(results[1].value) :
          results[1].value[i].place_id \in PoolIds("dessert")

(***************************************************************************)
(* The mail provider client (src/sender.py).                               *)
(*                                                                         *)
(* In the specifications of the upload path and of the dashboard the       *)
(* variables hold: args the command line or the environment, results the   *)
(* value create_draft_campaign returned, candidates the campaigns the      *)
(* provider holds, searches the requests sent to the provider, checks the  *)
(* calls of sender functions, details what the operator typed or what the  *)
(* callback answered.                                                      *)
(***************************************************************************)
\* os.environ as read by sender.py and dashboard.py
MailEnvs ==
    [ api_key : { None, Some("key") },
      server  : { None, Some(""), Some("us1") },
      list_id : { None, Some("list") } ]

\* how a request to the provider ends: answered, refused with
\* ApiClientError, or failing with any other exception
Outcomes == { "ok", "ApiClientError", "Exception" }

\* _get_client: ValueError unless key and server prefix are both set
_get_client(env) ==
    IF NoKey(env.api_key) \/ NoKey(env.server) THEN "ValueError" ELSE "client"

\* the id the provider gives the next campaign
NewCampaignId(campaigns) == Len(campaigns) + 1

Request(op, id) == [op |-> op, id |-> id]

Campaign(id, status, html) == [id |-> id, status |-> status, html |-> html]

\* the provider's campaigns after campaign_id went to status
SetStatus(campaigns, campaign_id, status) ==
    [i \in 1..Len(campaigns) |->
        IF campaigns[i].id = campaign_id
        THEN [campaigns[i] EXCEPT !.status = status] ELSE campaigns[i]]

\* what a sender function did: whether it raised, what it returned, the
\* requests it sent, the campaigns the provider holds afterwards
Did(raised, ret, requests, campaigns) ==
    [raised |-> raised, ret |-> ret, requests |-> requests, campaigns |-> campaigns]

\* create_draft_campaign: None without credentials or list id, on a refused
\* ping, create or set_content; {"link", "id"} otherwise
create_draft_campaign(env, campaigns, ping, create, set_content) ==
    LET campaign_id == NewCampaignId(campaigns)
        r1 == <<Request("ping.get", None)>>
        r2 == Append(r1, Request("campaigns.create", None))
        r3 == Append(r2, Request("campaigns.set_content", Some(campaign_id)))
    IN  IF _get_client(env) = "ValueError" THEN Did(FALSE, None, <<>>, campaigns)
        ELSE IF NoKey(env.list_id) THEN Did(FALSE, None, <<>>, campaigns)
        ELSE IF ping # "ok" THEN Did(ping = "Exception", None, r1, campaigns)
        ELSE IF create # "ok" THEN Did(create = "Exception", None, r2, campaigns)
        ELSE IF set_content # "ok"
             THEN Did(set_content = "Exception", None, r3,
                      Append(campaigns, Campaign(campaign_id, "draft", FALSE)))
        ELSE Did(FALSE,
                 Some([id |-> campaign_id, link |-> <<Val(env.server), campaign_id>>]),
                 r3, Append(campaigns, Campaign(campaign_id, "draft", TRUE)))

\* send_campaign_now: True when the provider accepted the send
send_campaign_now(env, campaigns, campaign_id, outcome) ==
    LET r == <<Request("campaigns.send", Some(campaign_id))>>
    IN  IF _get_client(env) = "ValueError" THEN Did(FALSE, FALSE, <<>>, campaigns)
        ELSE IF outcome = "ok"
             THEN Did(FALSE, TRUE, r, SetStatus(campaigns, campaign_id, "sent"))
        ELSE Did(outcome = "Exception", FALSE, r, campaigns)

\* schedule_campaign: True when the provider accepted the schedule
schedule_campaign(env, campaigns, campaign_id, schedule_time_utc, outcome) ==
    LET r == <<Request("campaigns.schedule", Some(campaign_id))>>
    IN  IF _get_client(env) = "ValueError" THEN Did(FALSE, FALSE, <<>>, campaigns)
        ELSE IF outcome = "ok"
             THEN Did(FALSE, TRUE, r, SetStatus(campaigns, campaign_id, "scheduled"))
        ELSE Did(outcome = "Exception", FALSE, r, campaigns)

\* one call of a sender function, as logged
SenderCall(fn, id, draft, ok) == [fn |-> fn, id |-> id, draft |-> draft, ok |-> ok]

(***************************************************************************)
(* The upload path of the command line (src/main.py 74-112).               *)
(***************************************************************************)
\* --mode
Modes == { "draft", "send", "schedule" }

\* --schedule-time: absent, empty, or a time
ScheduleTimes == { None, Some(""), Some("2025-11-25T14:00:00+00:00") }

\* what input() gives: a typed line, or none at end of input
TypedLines == { Some("YES"), Some("yes"), Some("Y"), Some("YES "), Some(""), None }

\* variant: the confirmation is accepted in any case
Confirmed_AnyCase(confirm) == confirm \in { Some("YES"), Some("yes") }

\* confirm == "YES"
Confirmed(confirm) == confirm = Some("YES")

InitCli ==
    /\ args \in [ mode : Modes, schedule_time : ScheduleTimes, env : MailEnvs ]
    /\ pc = "upload"
    /\ ci = 1
    /\ results = None
    /\ candidates = <<>>
    /\ processed_candidates = <<>>
    /\ pi = 1
    /\ ti = 1
    /\ valid_places = <<>>
    /\ searches = <<>>
    /\ checks = <<>>
    /\ details = None

\* lines 81-88: result = create_draft_campaign(...); return when it is None
UploadDraft ==
    /\ pc = "upload"
    /\ \E ping \in Outcomes, create \in Outcomes, set_content \in Outcomes :
         LET did == create_draft_campaign(args.env, candidates, ping, create, set_content)
         IN  /\ results' = did.ret
             /\ candidates' = did.campaigns
             /\ searches' = searches \o did.requests
             /\ checks' = Append(checks,
                    SenderCall("create_draft_campaign", None, did.ret, did.ret # None))
             /\ pc' = IF did.raised THEN "raised"
                      ELSE IF did.ret = None THEN "returned"
                      ELSE "mode"
    /\ UNCHANGED <<args, ci, processed_candidates, pi, ti, valid_places, details>>

\* lines 90-91
ModeDraft ==
    /\ pc = "mode"
    /\ args.mode = "draft"
    /\ pc' = "returned"
    /\ UNCHANGED <<args, ci, results, candidates, processed_candidates, pi, ti,
                   valid_places, searches, checks, details>>

\* lines 92-105: the prompt, and the send on "YES"
ModeSend ==
    /\ pc = "mode"
    /\ args.mode = "send"
    /\ \E confirm \in TypedLines, outcome \in Outcomes :
         LET did == send_campaign_now(args.env, candidates, Val(results).id, outcome)
         IN  /\ details' = Some(confirm)
             /\ IF confirm = None
                THEN /\ pc' = "raised"
                     /\ UNCHANGED <<candidates, searches, checks>>
                ELSE IF Confirmed(confirm)
                THEN /\ candidates' = did.campaigns
                     /\ searches' = searches \o did.requests
                     /\ checks' = Append(checks,
                           SenderCall("send_campaign_now", Some(Val(results).id),
                                      None, did.ret))
                     /\ pc' = IF did.raised THEN "raised" ELSE "returned"
                ELSE /\ pc' = "returned"
                     /\ UNCHANGED <<candidates, searches, checks>>
    /\ UNCHANGED <<args, ci, results, processed_candidates, pi, ti, valid_places>>

\* lines 107-110: --mode schedule without --schedule-time
ModeScheduleNoTime ==
    /\ pc = "mode"
    /\ args.mode = "schedule"
    /\ NoKey(args.schedule_time)
    /\ pc' = "returned"
    /\ UNCHANGED <<args, ci, results, candidates, processed_candidates, pi, ti,
                   valid_places, searches, checks, details>>

\* lines 107-112: schedule_campaign(campaign_id, args.schedule_time)
ModeSchedule ==
    /\ pc = "mode"
    /\ args.mode = "schedule"
    /\ ~NoKey(args.schedule_time)
    /\ \E outcome \in Outcomes :
         LET did == schedule_campaign(args.env, candidates, Val(results).id,
                                      Val(args.schedule_time), outcome)
         IN  /\ candidates' = did.campaigns
             /\ searches' = searches \o did.requests
             /\ checks' = Append(checks,
                   SenderCall("schedule_campaign", Some(Val(results).id), None, did.ret))
             /\ pc' = IF did.raised THEN "raised" ELSE "returned"
    /\ UNCHANGED <<args, ci, results, processed_candidates, pi, ti, valid_places,
                   details>>

NextCli ==
    \/ UploadDraft
    \/ ModeDraft
    \/ ModeSend
    \/ ModeScheduleNoTime
    \/ ModeSchedule

SpecCli == InitCli /\ [][NextCli]_vars

(***************************************************************************)
(* Properties of the upload path.                                          *)
(***************************************************************************)
\* a sender function of this name has been called
Called(fn) == \E k \in 1..Len(checks) : checks[k].fn = fn

\* a request of this kind has been sent to the provider
Requested(op) == \E k \in 1..Len(searches) : searches[k].op = op

\* create_draft_campaign was called and gave no draft
DraftFailed == checks # <<>> /\ checks[1].draft = None

\* the operator typed exactly YES at the prompt
TypedYes == details = Some(Some("YES"))

\* nothing was sent or scheduled, and what the provider holds are drafts
LeftAsDraft ==
    /\ ~Called("send_campaign_now") /\ ~Called("schedule_campaign")
    /\ ~Requested("campaigns.send") /\ ~Requested("campaigns.schedule")
    /\ \A i \in 1..Len(candidates) : candidates[i].status = "draft"

\* C29: send_campaign_now is called only as the call after a
\* create_draft_campaign that returned a draft, in mode send, after the
\* operator typed exactly YES; and when draft creation failed, in mode draft,
\* on any other input, and in mode schedule without a schedule time, nothing
\* is sent or scheduled and a campaign that was created is a draft.
C29_SendOnlyConfirmed ==
    /\ \A k \in 1..Len(checks) :
          checks[k].fn = "send_campaign_now" =>
             /\ k = 2
             /\ checks[1].fn = "create_draft_campaign"
             /\ checks[1].draft # None
             /\ args.mode = "send"
             /\ TypedYes
    /\ ( \/ DraftFailed
         \/ args.mode = "draft"
         \/ args.mode = "send" /\ ~TypedYes
         \/ args.mode = "schedule" /\ args.schedule_time \in { None, Some("") } )
       => LeftAsDraft

\* mode send, YES typed, the provider accepted: the campaign is sent
C29_Witness ==
    /\ pc = "returned"
    /\ args.mode = "send"
    /\ TypedYes
    /\ Len(checks) = 2
    /\ checks[2].fn = "send_campaign_now" /\ checks[2].ok
    /\ candidates = <<Campaign(1, "sent", TRUE)>>

(***************************************************************************)
(* The Send Now and Schedule callbacks of the dashboard (src/dashboard.py) *)
(***************************************************************************)
\* how many times the operator presses Send Now or confirms a schedule
MaxClicks == 2

\* n_clicks as the callback receives it
Clicks == { 0, 1 }

\* the value of the schedule-datetime field
ScheduleFields == { None, Some(""), Some("soon"), Some("2025-11-25T14:00") }

\* datetime.fromisoformat accepts it
IsIsoFormat(local_str) == local_str \in { "2025-11-25T14:00" }

\* to_utc_iso on a host five hours behind UTC; none when it raises ValueError
to_utc_iso(local_str) ==
    IF NoKey(local_str) THEN None
    ELSE IF ~IsIsoFormat(Val(local_str)) THEN None
    ELSE Some("2025-11-25T19:00:00+00:00")

\* variant: the buttons work as soon as an API key is set
MAILCHIMP_READY_KeyOnly == ~NoKey(args.env.api_key)

\* all([MAILCHIMP_API_KEY, MAILCHIMP_SERVER_PREFIX, MAILCHIMP_LIST_ID])
MAILCHIMP_READY ==
    /\ ~NoKey(args.env.api_key)
    /\ ~NoKey(args.env.server)
    /\ ~NoKey(args.env.list_id)

InitDash ==
    /\ args \in [ env : MailEnvs ]
    /\ pc = "dashboard"
    /\ ci = 1
    /\ results = None
    /\ candidates = <<>>
    /\ processed_candidates = <<>>
    /\ pi = 1
    /\ ti = 1
    /\ valid_places = <<>>
    /\ searches = <<>>
    /\ checks = <<>>
    /\ details = None

\* the callback of the Send Now button; body_ok says whether building the
\* configuration and the HTML body went through without an exception
send_now ==
    /\ pc = "dashboard"
    /\ ci <= MaxClicks
    /\ ci' = ci + 1
    /\ \E n_clicks \in Clicks, body_ok \in BOOLEAN,
          ping \in Outcomes, create \in Outcomes, set_content \in Outcomes,
          outcome \in Outcomes :
         LET made == create_draft_campaign(args.env, candidates, ping, create,
                                           set_content)
             sent == send_campaign_now(args.env, made.campaigns,
                                       Val(made.ret).id, outcome)
             c1   == Append(checks, SenderCall("create_draft_campaign", None,
                                               made.ret, made.ret # None))
         IN  IF n_clicks = 0
             THEN /\ details' = Some("PreventUpdate")
                  /\ UNCHANGED <<results, candidates, searches, checks>>
             ELSE IF ~MAILCHIMP_READY
             THEN /\ details' = Some("credentials missing")
                  /\ UNCHANGED <<results, candidates, searches, checks>>
             ELSE IF ~body_ok
             THEN /\ details' = Some("Send failed")
                  /\ UNCHANGED <<results, candidates, searches, checks>>
             ELSE IF made.raised \/ made.ret = None
             THEN /\ details' = IF made.raised THEN Some("Send failed")
                                ELSE Some("Draft creation failed")
                  /\ results' = IF made.raised THEN results ELSE made.ret
                  /\ candidates' = made.campaigns
                  /\ searches' = searches \o made.requests
                  /\ checks' = c1
             ELSE /\ details' = IF sent.raised THEN Some("Send failed")
                                ELSE IF sent.ret THEN Some("Campaign sent")
                                ELSE Some("sending failed")
                  /\ results' = made.ret
                  /\ candidates' = sent.campaigns
                  /\ searches' = searches \o made.requests \o sent.requests
                  /\ checks' = Append(c1, SenderCall("send_campaign_now",
                                   Some(Val(made.ret).id), None, sent.ret))
    /\ UNCHANGED <<args, pc, processed_candidates, pi, ti, valid_places>>

\* the callback of the schedule confirmation (dashboard.py 981-1027)
ConfirmSchedule ==
    /\ pc = "dashboard"
    /\ ci <= MaxClicks
    /\ ci' = ci + 1
    /\ \E n_clicks \in Clicks, body_ok \in BOOLEAN, schedule_time \in ScheduleFields,
          ping \in Outcomes, create \in Outcomes, set_content \in Outcomes,
          outcome \in Outcomes :
         LET made == create_draft_campaign(args.env, candidates, ping, create,
                                           set_content)
             schedule_time_utc == to_utc_iso(schedule_time)
             done == schedule_campaign(args.env, made.campaigns, Val(made.ret).id,
                                       Val(schedule_time_utc), outcome)
             c1   == Append(checks, SenderCall("create_draft_campaign", None,
                                               made.ret, made.ret # None))
         IN  IF n_clicks = 0
             THEN /\ details' = Some("PreventUpdate")
                  /\ UNCHANGED <<results, candidates, searches, checks>>
             ELSE IF ~MAILCHIMP_READY
             THEN /\ details' = Some("credentials missing")
                  /\ UNCHANGED <<results, candidates, searches, checks>>
             ELSE IF ~body_ok
             THEN /\ details' = Some("Schedule failed")
                  /\ UNCHANGED <<results, candidates, searches, checks>>
             ELSE IF made.raised \/ made.ret = None
             THEN /\ details' = IF made.raised THEN Some("Schedule failed")
                                ELSE Some("Draft creation failed")
                  /\ results' = IF made.raised THEN results ELSE made.ret
                  /\ candidates' = made.campaigns
                  /\ searches' = searches \o made.requests
                  /\ checks' = c1
             ELSE IF schedule_time_utc = None
             THEN /\ details' = Some("Schedule failed")
                  /\ results' = made.ret
                  /\ candidates' = made.campaigns
                  /\ searches' = searches \o made.requests
                  /\ checks' = c1
             ELSE /\ details' = IF done.raised THEN Some("Schedule failed")
                                ELSE IF done.ret THEN Some("Campaign scheduled")
                                ELSE Some("Scheduling failed")
                  /\ results' = made.ret
                  /\ candidates' = done.campaigns
                  /\ searches' = searches \o made.requests \o done.requests
                  /\ checks' = Append(c1, SenderCall("schedule_campaign",
                                   Some(Val(made.ret).id), None, done.ret))
    /\ UNCHANGED <<args, pc, processed_candidates, pi, ti, valid_places>>

NextDash ==
    \/ send_now
    \/ ConfirmSchedule

SpecDash == InitDash /\ [][NextDash]_vars

(***************************************************************************)
(* Properties of the dashboard callbacks.                                  *)
(***************************************************************************)
\* key, server prefix and list id are all set and not empty
CredentialsConfigured ==
    \A o \in { args.env.api_key, args.env.server, args.env.list_id } :
       o \notin { None, Some("") }

\* C30: without all three credentials the callbacks call no sender function
\* and send no request; a call of send_campaign_now or schedule_campaign
\* comes right after a create_draft_campaign that returned a draft and
\* carries that draft's id; and a campaign is sent or scheduled only by such
\* a call, so none is after a failed draft creation.
C30_DashboardGuarded ==
    /\ ~CredentialsConfigured =>
          checks = <<>> /\ searches = <<>> /\ candidates = <<>>
    /\ \A k \in 1..Len(checks) :
          checks[k].fn \in { "send_campaign_now", "schedule_campaign" } =>
             /\ k > 1
             /\ checks[k - 1].fn = "create_draft_campaign"
             /\ checks[k - 1].draft # None
             /\ checks[k].id = Some(checks[k - 1].draft[1].id)
    /\ \A k \in 1..Len(searches) :
          searches[k].op \in { "campaigns.send", "campaigns.schedule" } =>
             \E j \in 1..Len(checks) :
                /\ checks[j].fn \in { "send_campaign_now", "schedule_campaign" }
                /\ checks[j].id = searches[k].id
    /\ \A i \in 1..Len(candidates) :
          candidates[i].status # "draft" =>
             \E j \in 1..Len(checks) :
                /\ checks[j].fn \in { "send_campaign_now", "schedule_campaign" }
                /\ checks[j].id = Some(candidates[i].id)
                /\ checks[j].ok

\* two presses: the first campaign scheduled, the second sent
C30_Witness ==
    /\ CredentialsConfigured
    /\ Len(checks) = 4
    /\ checks[2] = SenderCall("schedule_campaign", Some(1), None, TRUE)
    /\ checks[4] = SenderCall("send_campaign_now", Some(2), None, TRUE)
    /\ candidates = << Campaign(1, "scheduled", TRUE), Campaign(2, "sent", TRUE) >>

====
